---------------------------- MODULE Spec2Model ----------------------------
(***************************************************************************)
(* Rating aggregation and review lifecycle of the games-database backend.  *)
(*                                                                         *)
(*   backend/controllers/reviewController.js   addReview, updateReview,    *)
(*                                             deleteReview,               *)
(*                                             deleteReviewByAdmin         *)
(*   backend/utils/ratingCalculator.js         updateGameRating            *)
(*   backend/controllers/gameController.js     addGame, deleteGame         *)
(*                                                                         *)
(* Request bodies are JSON, so text and rating are arbitrary JavaScript    *)
(* values.  A JavaScript value is a record [t, n, s]: t is the type tag,   *)
(* n the value of a number in TENTHS (3.7 is n = 37, 5 is n = 50), s the   *)
(* characters of a string.  NaN is a number with its own tag.              *)
(***************************************************************************)
EXTENDS Integers, Sequences, FiniteSets

\* ------------------------------------------------------------------------
\* Bounds of the model
\* ------------------------------------------------------------------------
\* Number of review documents ever created in one behaviour.
MaxReviews == 1

\* Number of review documents handed to updateGameRating in PureSpec.
MaxDocs == 3

\* ------------------------------------------------------------------------
\* JavaScript values
\* ------------------------------------------------------------------------
Undefined == [t |-> "undefined", n |-> 0, s |-> <<>>]
Null      == [t |-> "null",      n |-> 0, s |-> <<>>]
NaN       == [t |-> "nan",       n |-> 0, s |-> <<>>]
Num(x)    == [t |-> "number",    n |-> x, s |-> <<>>]
Str(cs)   == [t |-> "string",    n |-> 0, s |-> cs]

\* typeof v
TypeOf(v) == IF v.t = "nan" THEN "number"
             ELSE IF v.t = "null" THEN "object"
             ELSE v.t

\* ToBoolean(v): what `!v`, `v && ..`, `v || ..` and `v ? .. : ..` test.
Truthy(v) == CASE v.t = "undefined" -> FALSE
               [] v.t = "null"      -> FALSE
               [] v.t = "nan"       -> FALSE
               [] v.t = "number"    -> v.n # 0
               [] v.t = "string"    -> v.s # <<>>

\* a !== b (strict inequality: no conversion, and NaN differs from itself)
StrictNotEqual(a, b) ==
    \/ TypeOf(a) # TypeOf(b)
    \/ a.t = "nan"
    \/ b.t = "nan"
    \/ a # b

Digits == <<"0", "1", "2", "3", "4", "5", "6", "7", "8", "9">>

IsDigit(c) == \E i \in 1..Len(Digits) : Digits[i] = c

DigitVal(c) == (CHOOSE i \in 1..Len(Digits) : Digits[i] = c) - 1

IsSpace(c) == c = " "

\* The string without its leading white space.
RECURSIVE TrimLeft(_)
TrimLeft(cs) == IF cs # <<>> /\ IsSpace(Head(cs)) THEN TrimLeft(Tail(cs)) ELSE cs

\* The string without its trailing white space.
RECURSIVE TrimRight(_)
TrimRight(cs) == IF cs # <<>> /\ IsSpace(cs[Len(cs)])
                 THEN TrimRight(SubSeq(cs, 1, Len(cs) - 1))
                 ELSE cs

\* Number of decimal digits the string starts with.
RECURSIVE DigitPrefixLen(_)
DigitPrefixLen(cs) == IF cs # <<>> /\ IsDigit(Head(cs))
                      THEN 1 + DigitPrefixLen(Tail(cs))
                      ELSE 0

\* Value of a string of decimal digits.
RECURSIVE NatOfDigits(_)
NatOfDigits(cs) == IF cs = <<>> THEN 0
                   ELSE 10 * NatOfDigits(SubSeq(cs, 1, Len(cs) - 1))
                        + DigitVal(cs[Len(cs)])

\* The decimal digits of a natural number.
RECURSIVE DigitsOfNat(_)
DigitsOfNat(k) == IF k < 10 THEN <<Digits[k + 1]>>
                  ELSE DigitsOfNat(k \div 10) \o <<Digits[(k % 10) + 1]>>

Abs(x) == IF x < 0 THEN -x ELSE x

\* Number.prototype.toString of a finite number held in tenths: "3.7", "-1", "5".
NumberToString(x) ==
    LET sign == IF x < 0 THEN <<"-">> ELSE <<>>
        int  == DigitsOfNat(Abs(x) \div 10)
        frac == IF Abs(x) % 10 = 0 THEN <<>> ELSE <<".", Digits[(Abs(x) % 10) + 1]>>
    IN  sign \o int \o frac

\* ToString(v) for the values parseInt is handed.
ToString(v) == CASE v.t = "string"    -> v.s
                 [] v.t = "number"    -> NumberToString(v.n)
                 [] v.t = "nan"       -> <<"N", "a", "N">>
                 [] v.t = "null"      -> <<"n", "u", "l", "l">>
                 [] v.t = "undefined" -> <<"u", "n", "d", "e", "f", "i", "n", "e", "d">>

\* The string starts with "-".
IsNegative(cs) == cs # <<>> /\ Head(cs) = "-"

\* The string after its optional sign.
Unsigned(cs) == IF cs # <<>> /\ Head(cs) \in {"-", "+"} THEN Tail(cs) ELSE cs

\* The magnitude `mag` with the sign the string carried.
Signed(neg, mag) == IF neg THEN -mag ELSE mag

\* The integer the first k characters of `body` denote; NaN when k is 0.
IntegerPrefix(body, k, neg) ==
    IF k = 0 THEN NaN
    ELSE Num(10 * Signed(neg, NatOfDigits(SubSeq(body, 1, k))))

\* parseInt of a string without leading white space.
ParseIntTrimmed(cs) ==
    IntegerPrefix(Unsigned(cs), DigitPrefixLen(Unsigned(cs)), IsNegative(cs))

\* parseInt(v): the longest decimal-integer prefix of ToString(v) after leading
\* white space and an optional sign; NaN when there is no digit.
parseInt(v) == ParseIntTrimmed(TrimLeft(ToString(v)))

\* The number of a literal with integer part `int` followed by `rest`: nothing,
\* "." or "." and one digit (the precision numbers are held in); NaN otherwise.
DecimalOf(int, rest, neg) ==
    IF rest = <<>> \/ rest = <<".">> THEN Num(Signed(neg, 10 * int))
    ELSE IF Len(rest) = 2 /\ rest[1] = "." /\ IsDigit(rest[2])
         THEN Num(Signed(neg, 10 * int + DigitVal(rest[2])))
    ELSE NaN

\* The literal whose integer part is the first k characters of `body`.
DecimalLiteral(body, k, neg) ==
    IF k = 0 THEN NaN
    ELSE DecimalOf(NatOfDigits(SubSeq(body, 1, k)), SubSeq(body, k + 1, Len(body)), neg)

StringToNumberTrimmed(cs) ==
    IF cs = <<>> THEN Num(0)
    ELSE DecimalLiteral(Unsigned(cs), DigitPrefixLen(Unsigned(cs)), IsNegative(cs))

\* StringToNumber: the whole trimmed string must be a decimal literal; "" is 0.
StringToNumber(str) == StringToNumberTrimmed(TrimRight(TrimLeft(str)))

\* ToNumber(v): the conversion `<`, `>`, `<=`, `>=` apply to a non-number.
ToNumber(v) == CASE v.t = "number"    -> v
                 [] v.t = "nan"       -> NaN
                 [] v.t = "null"      -> Num(0)
                 [] v.t = "undefined" -> NaN
                 [] v.t = "string"    -> StringToNumber(v.s)

\* The comparison of a converted operand x with an integer literal k: false
\* when x is NaN.
NumLess(x, k)     == x.t = "number" /\ x.n < 10 * k
NumGreater(x, k)  == x.t = "number" /\ x.n > 10 * k
NumAtLeast(x, k)  == x.t = "number" /\ x.n >= 10 * k
NumAtMost(x, k)   == x.t = "number" /\ x.n <= 10 * k

\* v < k, v > k, v >= k, v <= k for an integer literal k.
LessThan(v, k)    == NumLess(ToNumber(v), k)
GreaterThan(v, k) == NumGreater(ToNumber(v), k)
AtLeast(v, k)     == NumAtLeast(ToNumber(v), k)
AtMost(v, k)      == NumAtMost(ToNumber(v), k)

\* a || null
OrNull(v) == IF Truthy(v) THEN v ELSE Null

\* ------------------------------------------------------------------------
\* Stores
\* ------------------------------------------------------------------------
Users == {"U1", "U2"}

GameIds == {"G1", "G2"}

ReviewIds == 1..MaxReviews

\* Values a request body carries as text.
Texts == {Undefined, Str(<<"o", "k">>)}

\* Values a request body carries as rating: absent, null, 0, -1, 3.7, 5, 6,
\* "5" and "abc".
Ratings == {Undefined, Null, Num(0), Num(-10), Num(37), Num(50), Num(60),
            Str(<<"5">>), Str(<<"a", "b", "c">>)}

\* Values a request body carries as title ("" stands for a missing title).
Titles == {"", "T1"}

\* The store calls of a handler that can throw.
FailPoints == {"none", "gameRead", "gameWrite", "reviewRead", "reviewWrite",
               "recomputeRead", "recomputeWrite"}

\* A path of the Realtime Database with no value, a document that does not exist.
NoGame == [exists |-> FALSE, title |-> "", averageRating |-> 0, totalRatings |-> 0]

NoReview == [exists |-> FALSE, userId |-> "", gameId |-> "", text |-> Null,
             rating |-> Null, dateTimePosted |-> 0]

VARIABLES
    games,      \* Realtime Database, games/<gameId>; averageRating in tenths
    reviews,    \* Firestore collection 'reviews', by document id
    nextId,     \* the id Firestore gives the next document; ids are never reused
    last,       \* the last request handled and the response it got
    tasks,      \* the requests in flight: each handler's position and locals
    hist        \* what has happened to each game's aggregate (history only)

vars == <<games, reviews, nextId, last, tasks, hist>>

\* Number of requests the server handles at the same time.
MaxProcs == 2

Procs == 1..MaxProcs

\* A slot with no request in flight.  While a handler runs, pc names the store
\* call it awaits and the other fields hold its locals.
IdleTask == [op |-> "none", pc |-> "idle", reviewId |-> 0, gameId |-> "",
             userId |-> "", text |-> Undefined, rating |-> Undefined,
             isAdmin |-> FALSE, title |-> "", reviewData |-> NoReview,
             docs |-> {}, totalRating |-> 0, count |-> 0,
             committed |-> FALSE, fresh |-> FALSE]

\* History of each game's aggregate: freshDone, a call of updateGameRating that
\* read the reviews after the last review write has written the game; lastFresh,
\* the call whose write the game holds did; wasStale, the last call made while
\* nothing else ran found the game's aggregate wrong.
NoHistory == [freshDone |-> [g \in GameIds |-> TRUE],
              lastFresh |-> [g \in GameIds |-> TRUE],
              wasStale  |-> FALSE]

NoRequest == [op |-> "none", status |-> 0, reviewId |-> 0, gameId |-> "",
              userId |-> "", text |-> Undefined, rating |-> Undefined,
              isAdmin |-> FALSE, recomputes |-> 0, failed |-> "none"]

\* ------------------------------------------------------------------------
\* ratingCalculator.js
\* ------------------------------------------------------------------------
\* The documents of firestore.collection('reviews').where('gameId', '==', gameId)
ReviewsOfGame(revs, gameId) ==
    {id \in DOMAIN revs : revs[id].exists /\ revs[id].gameId = gameId}

\* A forEach test that leaves out the range: any number but NaN counts.
IsCountedRating_NoRange(r) ==
    /\ StrictNotEqual(r, Null)
    /\ StrictNotEqual(r, Undefined)
    /\ TypeOf(r) = "number"
    /\ r.t = "number"

\* The test of the forEach callback: the rating is counted.
IsCountedRating(r) ==
    /\ StrictNotEqual(r, Null)
    /\ StrictNotEqual(r, Undefined)
    /\ TypeOf(r) = "number"
    /\ AtLeast(r, 1)
    /\ AtMost(r, 5)

\* A forEach that assigns the rating to totalRating where it should add it.
TotalRating_Last(revs, ids) ==
    IF {id \in ids : IsCountedRating(revs[id].rating)} = {} THEN 0
    ELSE revs[CHOOSE id \in ids : IsCountedRating(revs[id].rating)].rating.n

\* totalRating after the forEach, in tenths.
RECURSIVE TotalRating(_, _)
TotalRating(revs, ids) ==
    IF ids = {} THEN 0
    ELSE LET id == CHOOSE i \in ids : TRUE
         IN  (IF IsCountedRating(revs[id].rating) THEN revs[id].rating.n ELSE 0)
             + TotalRating(revs, ids \ {id})

\* count after the forEach.
CountRatings(revs, ids) == Cardinality({id \in ids : IsCountedRating(revs[id].rating)})

\* (totalRating / count).toFixed(1) for totalRating >= 0 in tenths and count > 0:
\* the decimal with one fractional digit nearest to the quotient, the larger one
\* on a tie.  The quotient of two integers is a tie only on a multiple of 1/20;
\* below 20 reviews that is a multiple of 1/4, which a double holds exactly.
toFixed(total, count) ==
    LET n == (2 * total + count) \div (2 * count)
    IN  DigitsOfNat(n \div 10) \o <<".", Digits[(n % 10) + 1]>>

\* The number of the digits `int` and, when `rest` starts with "." and a digit,
\* that fractional digit; in tenths.
FloatOf(int, rest) ==
    IF Len(rest) >= 2 /\ rest[1] = "." /\ IsDigit(rest[2])
    THEN Num(10 * int + DigitVal(rest[2]))
    ELSE Num(10 * int)

FloatPrefix(cs, k) ==
    IF k = 0 THEN NaN
    ELSE FloatOf(NatOfDigits(SubSeq(cs, 1, k)), SubSeq(cs, k + 1, Len(cs)))

\* parseFloat(cs) of an unsigned decimal string, in tenths.
parseFloat(cs) == FloatPrefix(cs, DigitPrefixLen(cs))

\* The value updateGameRating returns and writes: {averageRating, totalRatings}.
Aggregate(total, count) ==
    [averageRating |-> IF count > 0 THEN parseFloat(toFixed(total, count)).n ELSE 0,
     totalRatings  |-> count]

\* The aggregate of the documents `ids` of the query.
RatingOfDocs(revs, ids) == Aggregate(TotalRating(revs, ids), CountRatings(revs, ids))

RatingOf(revs, gameId) == RatingOfDocs(revs, ReviewsOfGame(revs, gameId))

\* A write that adds the count to the one stored.
UpdateRatingFields_Accumulates(gs, gameId, r) ==
    [gs EXCEPT ![gameId] = [@ EXCEPT !.exists        = TRUE,
                                     !.averageRating = r.averageRating,
                                     !.totalRatings  = @ + r.totalRatings]]

\* db.ref(`games/${gameId}`).update({averageRating}): the count is left as it
\* was.
UpdateRatingFields_AverageOnly(gs, gameId, r) ==
    [gs EXCEPT ![gameId] = [@ EXCEPT !.exists        = TRUE,
                                     !.averageRating = r.averageRating]]

\* db.ref(`games/${gameId}`).set({averageRating, totalRatings}): the record is
\* replaced by one with these two children.
UpdateRatingFields_Set(gs, gameId, r) ==
    [gs EXCEPT ![gameId] = [exists |-> TRUE, title |-> "",
                            averageRating |-> r.averageRating,
                            totalRatings  |-> r.totalRatings]]

\* db.ref(`games/${gameId}`).update({averageRating, totalRatings}): sets the two
\* children and leaves the others; a path with no value gets just these two.
UpdateRatingFields(gs, gameId, r) ==
    [gs EXCEPT ![gameId] = [@ EXCEPT !.exists        = TRUE,
                                     !.averageRating = r.averageRating,
                                     !.totalRatings  = r.totalRatings]]

\* updateGameRating(gameId) on review store revs: the game store afterwards and
\* whether it threw (it rethrows what the read or the write throws).
updateGameRating(gs, revs, gameId, fail) ==
    IF fail = "recomputeRead" THEN [games |-> gs, threw |-> TRUE, failed |-> fail]
    ELSE IF fail = "recomputeWrite" THEN [games |-> gs, threw |-> TRUE, failed |-> fail]
    ELSE [games  |-> UpdateRatingFields(gs, gameId, RatingOf(revs, gameId)),
          threw  |-> FALSE,
          failed |-> "none"]

\* ------------------------------------------------------------------------
\* reviewController.js
\* ------------------------------------------------------------------------
\* What a handler did: the response status, the stores it leaves, the id of the
\* review it created, how often it called updateGameRating, the call that threw.
Outcome(status, gs, revs, nid, rid, calls, failed) ==
    [status |-> status, games |-> gs, reviews |-> revs, nextId |-> nid,
     reviewId |-> rid, recomputes |-> calls, failed |-> failed]

\* Leaving the handler before any write, with the given status.
Reject(status, rid, failed) == Outcome(status, games, reviews, nextId, rid, 0, failed)

\* !text && !rating
MissingInput(text, rating) == ~Truthy(text) /\ ~Truthy(rating)

\* rating && (rating < 1 || rating > 5)
RatingOutOfRange(rating) ==
    Truthy(rating) /\ (LessThan(rating, 1) \/ GreaterThan(rating, 5))

\* rating ? parseInt(rating) : null
StoredRating(rating) == IF Truthy(rating) THEN parseInt(rating) ELSE Null

\* reviewData of addReview; the time posted is the creation's place in time.
NewReview(userId, gameId, text, rating, now) ==
    [exists |-> TRUE, userId |-> userId, gameId |-> gameId, text |-> OrNull(text),
     rating |-> StoredRating(rating), dateTimePosted |-> now]

\* if (rating) of addReview
AddTriggersRecompute(rating) == Truthy(rating)

\* An update handler with no ownership check.
NotOwner_Unchecked(reviewData, userId) == FALSE

\* reviewData.userId !== userId
NotOwner(reviewData, userId) == reviewData.userId # userId

\* The test of addReview used in updateReview: recompute when a rating is given.
UpdateTriggersRecompute_IfRatingGiven(rating, reviewData) == Truthy(rating)

\* if (rating !== reviewData.rating) of updateReview
UpdateTriggersRecompute(rating, reviewData) == StrictNotEqual(rating, reviewData.rating)

\* A delete handler that does not read isAdmin.
DeleteForbidden_IgnoresAdmin(isAdmin, reviewData, userId) ==
    ~(reviewData.userId = userId)

\* !isAdmin && !isOwner of deleteReview
DeleteForbidden(isAdmin, reviewData, userId) ==
    ~isAdmin /\ ~(reviewData.userId = userId)

\* A delete handler that recomputes whatever the deleted review held.
HadRating_Always(reviewData) == TRUE

\* hadRating = reviewData.rating !== null
HadRating(reviewData) == StrictNotEqual(reviewData.rating, Null)

\* A handler that catches what updateGameRating throws and answers as if it had
\* not been thrown.
AfterRecompute_SwallowsFailure(ok, u, revs, nid, rid) ==
    Outcome(ok, u.games, revs, nid, rid, 1, u.failed)

\* A handler that undoes its review write when updateGameRating throws.
AfterRecompute_RollsBack(ok, u, revs, nid, rid) ==
    IF u.threw
    THEN Outcome(500, u.games, reviews, nextId, rid, 1, u.failed)
    ELSE Outcome(ok, u.games, revs, nid, rid, 1, "none")

\* The response once updateGameRating has returned or thrown `u`: the success
\* response, or 500 from the handler's catch.
AfterRecompute(ok, u, revs, nid, rid) ==
    IF u.threw
    THEN Outcome(500, u.games, revs, nid, rid, 1, u.failed)
    ELSE Outcome(ok, u.games, revs, nid, rid, 1, "none")

\* The rest of a handler once its review write is done: updateGameRating when
\* `trigger` holds, then the response.
AfterWrite(ok, revs, nid, rid, trigger, gameId, fail) ==
    IF trigger
    THEN AfterRecompute(ok, updateGameRating(games, revs, gameId, fail), revs, nid, rid)
    ELSE Outcome(ok, games, revs, nid, rid, 0, "none")

\* An addReview that looks the game up after it has added the review.
AddReviewResult_ChecksGameLate(userId, gameId, text, rating, fail) ==
    IF MissingInput(text, rating) THEN Reject(400, 0, "none")
    ELSE IF RatingOutOfRange(rating) THEN Reject(400, 0, "none")
    ELSE IF fail = "reviewWrite" THEN Reject(500, 0, fail)
    ELSE IF fail = "gameRead" THEN Reject(500, 0, fail)
    ELSE IF ~games[gameId].exists
         THEN Outcome(404, games,
                      [reviews EXCEPT ![nextId] =
                          NewReview(userId, gameId, text, rating, nextId)],
                      nextId + 1, 0, 0, "none")
    ELSE AfterWrite(201,
                    [reviews EXCEPT ![nextId] =
                        NewReview(userId, gameId, text, rating, nextId)],
                    nextId + 1, nextId,
                    AddTriggersRecompute(rating), gameId, fail)

AddReviewResult(userId, gameId, text, rating, fail) ==
    IF MissingInput(text, rating) THEN Reject(400, 0, "none")
    ELSE IF RatingOutOfRange(rating) THEN Reject(400, 0, "none")
    ELSE IF fail = "gameRead" THEN Reject(500, 0, fail)
    ELSE IF ~games[gameId].exists THEN Reject(404, 0, "none")
    ELSE IF fail = "reviewWrite" THEN Reject(500, 0, fail)
    ELSE AfterWrite(201,
                    [reviews EXCEPT ![nextId] =
                        NewReview(userId, gameId, text, rating, nextId)],
                    nextId + 1, nextId,
                    AddTriggersRecompute(rating), gameId, fail)

UpdateReviewResult(reviewId, userId, text, rating, fail) ==
    LET reviewData == reviews[reviewId]
    IN  IF fail = "reviewRead" THEN Reject(500, reviewId, fail)
        ELSE IF ~reviewData.exists THEN Reject(404, reviewId, "none")
        ELSE IF NotOwner(reviewData, userId) THEN Reject(403, reviewId, "none")
        ELSE IF MissingInput(text, rating) THEN Reject(400, reviewId, "none")
        ELSE IF RatingOutOfRange(rating) THEN Reject(400, reviewId, "none")
        ELSE IF fail = "reviewWrite" THEN Reject(500, reviewId, fail)
        ELSE AfterWrite(200,
                        [reviews EXCEPT ![reviewId] =
                            [@ EXCEPT !.text   = OrNull(text),
                                      !.rating = StoredRating(rating)]],
                        nextId, reviewId,
                        UpdateTriggersRecompute(rating, reviewData),
                        reviewData.gameId, fail)

DeleteReviewResult(reviewId, userId, isAdmin, fail) ==
    LET reviewData == reviews[reviewId]
    IN  IF fail = "reviewRead" THEN Reject(500, reviewId, fail)
        ELSE IF ~reviewData.exists THEN Reject(404, reviewId, "none")
        ELSE IF DeleteForbidden(isAdmin, reviewData, userId) THEN Reject(403, reviewId, "none")
        ELSE IF fail = "reviewWrite" THEN Reject(500, reviewId, fail)
        ELSE AfterWrite(200, [reviews EXCEPT ![reviewId] = NoReview],
                        nextId, reviewId,
                        HadRating(reviewData), reviewData.gameId, fail)

\* A moderator delete that goes on to updateGameRating and the success
\* response when its delete call has thrown.
DeleteReviewByAdminResult_IgnoresWriteFailure(reviewId, fail) ==
    LET reviewData == reviews[reviewId]
    IN  IF fail = "reviewRead" THEN Reject(500, reviewId, fail)
        ELSE IF ~reviewData.exists THEN Reject(404, reviewId, "none")
        ELSE IF fail = "reviewWrite"
             THEN Outcome(200, updateGameRating(games, reviews, reviewData.gameId, "none").games,
                          reviews, nextId, reviewId, 1, fail)
        ELSE AfterWrite(200, [reviews EXCEPT ![reviewId] = NoReview],
                        nextId, reviewId,
                        HadRating(reviewData), reviewData.gameId, fail)

DeleteReviewByAdminResult(reviewId, fail) ==
    LET reviewData == reviews[reviewId]
    IN  IF fail = "reviewRead" THEN Reject(500, reviewId, fail)
        ELSE IF ~reviewData.exists THEN Reject(404, reviewId, "none")
        ELSE IF fail = "reviewWrite" THEN Reject(500, reviewId, fail)
        ELSE AfterWrite(200, [reviews EXCEPT ![reviewId] = NoReview],
                        nextId, reviewId,
                        HadRating(reviewData), reviewData.gameId, fail)

\* The handler's effect on the stores, and the record of the request.
Respond(op, result, gameId, userId, text, rating, isAdmin) ==
    \E r \in {result} :
        /\ games'   = r.games
        /\ reviews' = r.reviews
        /\ nextId'  = r.nextId
        /\ last'    = [op |-> op, status |-> r.status, reviewId |-> r.reviewId,
                       gameId |-> gameId, userId |-> userId, text |-> text,
                       rating |-> rating, isAdmin |-> isAdmin,
                       recomputes |-> r.recomputes, failed |-> r.failed]
        /\ UNCHANGED <<tasks, hist>>

addReview(userId, gameId, text, rating, fail) ==
    Respond("addReview", AddReviewResult(userId, gameId, text, rating, fail),
            gameId, userId, text, rating, FALSE)

\* The body of an update may carry isAdmin as that of a delete does; the handler
\* reads userId, text and rating only.
updateReview(reviewId, userId, isAdmin, text, rating, fail) ==
    Respond("updateReview", UpdateReviewResult(reviewId, userId, text, rating, fail),
            "", userId, text, rating, isAdmin)

deleteReview(reviewId, userId, isAdmin, fail) ==
    Respond("deleteReview", DeleteReviewResult(reviewId, userId, isAdmin, fail),
            "", userId, Undefined, Undefined, isAdmin)

deleteReviewByAdmin(reviewId, fail) ==
    Respond("deleteReviewByAdmin", DeleteReviewByAdminResult(reviewId, fail),
            "", "", Undefined, Undefined, FALSE)

\* ------------------------------------------------------------------------
\* gameController.js (requests without an image)
\* ------------------------------------------------------------------------
\* gameData of addGame: a new record, whatever was stored under the id.
NewGame(title) ==
    [exists |-> TRUE, title |-> title, averageRating |-> 0, totalRatings |-> 0]

AddGameResult(gameId, title, fail) ==
    IF title = "" THEN Reject(400, 0, "none")
    ELSE IF fail = "gameWrite" THEN Reject(500, 0, fail)
    ELSE Outcome(201, [games EXCEPT ![gameId] = NewGame(title)],
                 reviews, nextId, 0, 0, "none")

\* The review store after the batch of deleteGame is committed.
WithoutReviewsOf(revs, gameId) ==
    [id \in DOMAIN revs |->
        IF revs[id].exists /\ revs[id].gameId = gameId THEN NoReview ELSE revs[id]]

DeleteGameResult(gameId, fail) ==
    IF fail = "gameRead" THEN Reject(500, 0, fail)
    ELSE IF ~games[gameId].exists THEN Reject(404, 0, "none")
    ELSE IF fail = "reviewRead" THEN Reject(500, 0, fail)
    ELSE IF fail = "reviewWrite" /\ ReviewsOfGame(reviews, gameId) # {}
         THEN Reject(500, 0, fail)
    ELSE IF fail = "gameWrite"
         THEN Outcome(500, games, WithoutReviewsOf(reviews, gameId),
                      nextId, 0, 0, fail)
    ELSE Outcome(200, [games EXCEPT ![gameId] = NoGame],
                 WithoutReviewsOf(reviews, gameId), nextId, 0, 0, "none")

\* updateGame with a body that carries the title, or ("") no title: the
\* update() sets the children the body names and leaves the others.
UpdateGameResult(gameId, title, fail) ==
    IF fail = "gameRead" THEN Reject(500, 0, fail)
    ELSE IF ~games[gameId].exists THEN Reject(404, 0, "none")
    ELSE IF fail = "gameWrite" THEN Reject(500, 0, fail)
    ELSE Outcome(200,
                 IF title = "" THEN games
                 ELSE [games EXCEPT ![gameId] = [@ EXCEPT !.title = title]],
                 reviews, nextId, 0, 0, "none")

updateGame(gameId, title, fail) ==
    Respond("updateGame", UpdateGameResult(gameId, title, fail),
            gameId, "", Undefined, Undefined, FALSE)

addGame(gameId, title, fail) ==
    Respond("addGame", AddGameResult(gameId, title, fail),
            gameId, "", Undefined, Undefined, FALSE)

deleteGame(gameId, fail) ==
    Respond("deleteGame", DeleteGameResult(gameId, fail),
            gameId, "", Undefined, Undefined, FALSE)

\* ------------------------------------------------------------------------
\* Requests, handled one at a time
\* ------------------------------------------------------------------------
\* The database before the first request.
Init ==
    /\ games   = [g \in GameIds |-> NoGame]
    /\ reviews = [id \in ReviewIds |-> NoReview]
    /\ nextId  = 1
    /\ last    = NoRequest
    /\ tasks   = [p \in Procs |-> IdleTask]
    /\ hist    = NoHistory

\* A request of each kind, its body drawn from the given sets, its store calls
\* failing as `fs` allows; `cap` bounds the number of documents ever created.
AddReviewStep(cap, us, ts, rs, fs) ==
    /\ nextId <= cap
    /\ \E u \in us, g \in GameIds, t \in ts, r \in rs, f \in fs : addReview(u, g, t, r, f)

UpdateReviewStep(cap, us, as, ts, rs, fs) ==
    \E id \in 1..cap, u \in us, a \in as, t \in ts, r \in rs, f \in fs :
        updateReview(id, u, a, t, r, f)

DeleteReviewStep(cap, us, as, fs) ==
    \E id \in 1..cap, u \in us, a \in as, f \in fs : deleteReview(id, u, a, f)

DeleteReviewByAdminStep(cap, fs) ==
    \E id \in 1..cap, f \in fs : deleteReviewByAdmin(id, f)

AddGameStep(fs) ==
    \E g \in GameIds, t \in Titles, f \in fs : addGame(g, t, f)

DeleteGameStep(fs) ==
    \E g \in GameIds, f \in fs : deleteGame(g, f)

UpdateGameStep(ts, fs) ==
    \E g \in GameIds, t \in ts, f \in fs : updateGame(g, t, f)

\* Every store call succeeds.  The handlers compare user ids for equality only:
\* U1 posts the reviews, U1 and U2 ask to change them.
Next ==
    \/ AddReviewStep(MaxReviews, {"U1"}, Texts, Ratings, {"none"})
    \/ UpdateReviewStep(MaxReviews, Users, {FALSE}, Texts, Ratings, {"none"})
    \/ DeleteReviewStep(MaxReviews, Users, BOOLEAN, {"none"})
    \/ DeleteReviewByAdminStep(MaxReviews, {"none"})
    \/ AddGameStep({"none"})
    \/ DeleteGameStep({"none"})

Spec == Init /\ [][Next]_vars

\* ------------------------------------------------------------------------
\* Game requests among review requests, handled one at a time
\* ------------------------------------------------------------------------
AdminRatings == {Undefined, Num(30), Num(50)}

AdminTitles == {"", "T1", "T2"}

AdminNext ==
    \/ AddReviewStep(MaxReviews, {"U1"}, Texts, AdminRatings, {"none"})
    \/ UpdateReviewStep(MaxReviews, {"U1"}, {FALSE}, Texts, AdminRatings, {"none"})
    \/ DeleteReviewStep(MaxReviews, {"U1"}, {FALSE}, {"none"})
    \/ AddGameStep({"none"})
    \/ UpdateGameStep(AdminTitles, {"none"})
    \/ DeleteGameStep({"none"})

AdminSpec == Init /\ [][AdminNext]_vars

\* ------------------------------------------------------------------------
\* Who may change a review: every requester, a few request bodies
\* ------------------------------------------------------------------------
AuthRatings == {Undefined, Num(50)}

AuthNext ==
    \/ AddReviewStep(MaxReviews, Users, Texts, AuthRatings, {"none"})
    \/ UpdateReviewStep(MaxReviews, Users, BOOLEAN, Texts, AuthRatings, {"none"})
    \/ DeleteReviewStep(MaxReviews, Users, BOOLEAN, {"none"})
    \/ DeleteReviewByAdminStep(MaxReviews, {"none"})
    \/ AddGameStep({"none"})
    \/ DeleteGameStep({"none"})

AuthSpec == Init /\ [][AuthNext]_vars

\* ------------------------------------------------------------------------
\* Store calls that throw
\* ------------------------------------------------------------------------
FailRatings == {Undefined, Num(37)}

\* The store calls of each handler: any one of them may throw.
AddReviewFails == {"none", "gameRead", "reviewWrite", "recomputeRead", "recomputeWrite"}

ReviewFails == {"none", "reviewRead", "reviewWrite", "recomputeRead", "recomputeWrite"}

AddGameFails == {"none", "gameWrite"}

DeleteGameFails == {"none", "gameRead", "reviewRead", "reviewWrite", "gameWrite"}

FailNext ==
    \/ AddReviewStep(MaxReviews, {"U1"}, Texts, FailRatings, AddReviewFails)
    \/ UpdateReviewStep(MaxReviews, {"U1"}, {FALSE}, Texts, FailRatings, ReviewFails)
    \/ DeleteReviewStep(MaxReviews, {"U1"}, {FALSE}, ReviewFails)
    \/ DeleteReviewByAdminStep(MaxReviews, ReviewFails)
    \/ AddGameStep(AddGameFails)
    \/ DeleteGameStep(DeleteGameFails)

FailSpec == Init /\ [][FailNext]_vars

\* ------------------------------------------------------------------------
\* The four review operations alone, on a database that holds both games
\* ------------------------------------------------------------------------
\* Number of review documents ever created in one behaviour of ReviewSpec.
MaxRated == 2

RatedRatings == {Undefined, Null, Num(0), Num(37), Num(50), Str(<<"a", "b", "c">>)}

ReviewInit ==
    /\ games   = [g \in GameIds |-> NewGame("T1")]
    /\ reviews = [id \in 1..MaxRated |-> NoReview]
    /\ nextId  = 1
    /\ last    = NoRequest
    /\ tasks   = [p \in Procs |-> IdleTask]
    /\ hist    = NoHistory

ReviewNext ==
    \/ AddReviewStep(MaxRated, {"U1"}, Texts, RatedRatings, {"none"})
    \/ UpdateReviewStep(MaxRated, {"U1"}, {FALSE}, Texts, RatedRatings, {"none"})
    \/ DeleteReviewStep(MaxRated, {"U1"}, {FALSE}, {"none"})
    \/ DeleteReviewByAdminStep(MaxRated, {"none"})

ReviewSpec == ReviewInit /\ [][ReviewNext]_vars

\* ------------------------------------------------------------------------
\* updateGameRating on any review store
\* ------------------------------------------------------------------------
\* Ratings a stored document may hold, whoever wrote it: no field, null, NaN,
\* 0, 1, 3, 5, 6 and the string "4".
DocRatings == {Undefined, Null, NaN, Num(0), Num(10), Num(30), Num(50), Num(60),
               Str(<<"4">>)}

Doc(gameId, rating) ==
    [exists |-> TRUE, userId |-> "U1", gameId |-> gameId, text |-> Null,
     rating |-> rating, dateTimePosted |-> 0]

PureInit ==
    /\ games   = [g \in GameIds |-> NewGame("T1")]
    /\ reviews \in [1..MaxDocs -> {Doc(g, r) : g \in GameIds, r \in DocRatings}]
    /\ nextId  = MaxDocs + 1
    /\ last    = NoRequest
    /\ tasks   = [p \in Procs |-> IdleTask]
    /\ hist    = NoHistory

\* A call of updateGameRating(gameId) outside any handler.
Recompute(gameId, fail) ==
    \E u \in {updateGameRating(games, reviews, gameId, fail)} :
        /\ games' = u.games
        /\ last'  = [NoRequest EXCEPT !.op = "updateGameRating", !.gameId = gameId,
                                      !.status = IF u.threw THEN 500 ELSE 200,
                                      !.recomputes = 1, !.failed = u.failed]
        /\ UNCHANGED <<reviews, nextId, tasks, hist>>

PureNext == \E g \in GameIds : Recompute(g, "none")

PureSpec == PureInit /\ [][PureNext]_vars

\* ------------------------------------------------------------------------
\* updateGameRating called again and again, on any game record
\* ------------------------------------------------------------------------
\* Number of calls in a row that are told apart.
MaxCalls == 2

FrameRatings == {Null, Num(30), Num(50)}

\* A game whose aggregate is not that of its reviews, as a failed or overtaken
\* call of updateGameRating leaves it.
StaleGame == [exists |-> TRUE, title |-> "T1", averageRating |-> 50, totalRatings |-> 4]

FrameInit ==
    /\ games   \in [GameIds -> {NoGame, NewGame("T1"), StaleGame}]
    /\ reviews \in [1..MaxDocs -> {Doc(g, r) : g \in GameIds, r \in FrameRatings}]
    /\ nextId  = MaxDocs + 1
    /\ last    = NoRequest
    /\ tasks   = [p \in Procs |-> IdleTask]
    /\ hist    = NoHistory

\* A call of updateGameRating(gameId); last.recomputes counts the calls made in
\* a row for the same game.
RecomputeAgain(gameId) ==
    \E u \in {updateGameRating(games, reviews, gameId, "none")} :
        /\ games' = u.games
        /\ last'  = [NoRequest EXCEPT
                        !.op = "updateGameRating", !.gameId = gameId, !.status = 200,
                        !.recomputes = IF last.op = "updateGameRating" /\ last.gameId = gameId
                                       THEN IF last.recomputes < MaxCalls
                                            THEN last.recomputes + 1 ELSE MaxCalls
                                       ELSE 1]
        /\ UNCHANGED <<reviews, nextId, tasks, hist>>

FrameNext == \E g \in GameIds : RecomputeAgain(g)

FrameSpec == FrameInit /\ [][FrameNext]_vars

\* ------------------------------------------------------------------------
\* Requests in flight: a handler runs up to its next await, then another may
\* ------------------------------------------------------------------------
\* Number of review documents ever created in one behaviour of RaceSpec.
MaxRaceReviews == 2

\* Ratings of the reviews added, and the rating an update gives, in RaceSpec.
RaceRatings == {Num(30), Num(50)}

RaceUpdateRatings == {Num(30)}

\* No request is in flight.
Quiet == \A p \in Procs : tasks[p].pc = "idle"

\* The slots once slot p holds t.
Slot(p, t) == [tasks EXCEPT ![p] = t]

\* The slots once slot p holds t and has committed a write to the reviews of
\* game g: what another call of updateGameRating(g) has read is no longer the
\* latest.
SlotAfterWrite(p, t, g) ==
    [q \in Procs |->
        IF q = p THEN t
        ELSE IF tasks[q].gameId = g THEN [tasks[q] EXCEPT !.fresh = FALSE]
        ELSE tasks[q]]

\* res.status(status).json(..) of the handler that ran with locals t.
Response(t, status, failed) ==
    [NoRequest EXCEPT !.op = t.op, !.status = status, !.gameId = t.gameId,
                      !.failed = failed]

\* The status of the success response of a handler.
OkStatus(op) == IF op \in {"addReview", "addGame"} THEN 201 ELSE 200

\* A review write to game g has been committed.
HistAfterReviewWrite(g) ==
    [hist EXCEPT !.freshDone[g] = FALSE, !.lastFresh[g] = FALSE]

\* The call of updateGameRating(g) in a slot with locals t has written the game.
HistAfterRecompute(t, g) ==
    [hist EXCEPT !.freshDone[g] = @ \/ t.fresh, !.lastFresh[g] = t.fresh]

\* The call a handler awaits once its review write is committed: the read of
\* updateGameRating when `trigger` holds, none ("idle") otherwise.
CallAfterWrite(trigger) == IF trigger THEN "recomputeRead" ELSE "idle"

\* The slot of a handler whose review write is committed; of its locals only
\* those it reads again are kept.
AfterCommit(t, trigger) ==
    [IdleTask EXCEPT !.op = t.op, !.pc = CallAfterWrite(trigger), !.gameId = t.gameId,
                     !.committed = TRUE]

\* addReview up to its first await: validation, then the game lookup is issued.
StartAddReview(p, userId, gameId, text, rating) ==
    /\ tasks[p].pc = "idle"
    /\ nextId + Cardinality({q \in Procs : tasks[q].op = "addReview"}) \in DOMAIN reviews
    /\ \E t \in {[IdleTask EXCEPT !.op = "addReview", !.userId = userId, !.gameId = gameId,
                                    !.text = text, !.rating = rating]} :
        IF MissingInput(text, rating) \/ RatingOutOfRange(rating)
        THEN tasks' = tasks /\ last' = Response(t, 400, "none")
        ELSE tasks' = Slot(p, [t EXCEPT !.pc = "gameRead"]) /\ last' = last
    /\ UNCHANGED <<games, reviews, nextId, hist>>

\* gameSnapshot.exists() of addReview, then the add call is issued.
AddReviewGameRead(p) ==
    /\ tasks[p].op = "addReview"
    /\ tasks[p].pc = "gameRead"
    /\ IF ~games[tasks[p].gameId].exists
       THEN tasks' = Slot(p, IdleTask) /\ last' = Response(tasks[p], 404, "none")
       ELSE tasks' = Slot(p, [tasks[p] EXCEPT !.pc = "reviewWrite"]) /\ last' = last
    /\ UNCHANGED <<games, reviews, nextId, hist>>

\* firestore.collection('reviews').add(reviewData) is committed.
AddReviewWrite(p) ==
    /\ tasks[p].op = "addReview"
    /\ tasks[p].pc = "reviewWrite"
    /\ \E t \in {AfterCommit(tasks[p], AddTriggersRecompute(tasks[p].rating))} :
        /\ reviews' = [reviews EXCEPT ![nextId] =
                          NewReview(tasks[p].userId, tasks[p].gameId, tasks[p].text,
                                    tasks[p].rating, nextId)]
        /\ nextId' = nextId + 1
        /\ hist' = HistAfterReviewWrite(t.gameId)
        /\ IF t.pc = "idle"
           THEN /\ tasks' = SlotAfterWrite(p, IdleTask, t.gameId)
                /\ last' = Response(t, 201, "none")
           ELSE /\ tasks' = SlotAfterWrite(p, t, t.gameId)
                /\ last' = last
    /\ UNCHANGED games

\* updateReview, deleteReview and deleteReviewByAdmin up to their first await:
\* the get of the review is issued.
StartReviewChange(p, op, reviewId, userId, isAdmin, text, rating) ==
    /\ tasks[p].pc = "idle"
    /\ tasks' = Slot(p, [IdleTask EXCEPT !.op = op, !.pc = "reviewRead",
                                         !.reviewId = reviewId, !.userId = userId,
                                         !.isAdmin = isAdmin, !.text = text,
                                         !.rating = rating])
    /\ UNCHANGED <<games, reviews, nextId, last, hist>>

\* A handler that calls updateGameRating before it writes the review.
CallAfterRead_RecomputeFirst(t) == "recomputeRead"

\* The call a handler issues once the review it read lets it go on: its update
\* or delete of the review.
CallAfterRead(t) == "reviewWrite"

\* The status with which a handler leaves after it has read the review `doc`,
\* 0 when it goes on to its write.
ReviewReadStatus(t, doc) ==
    IF ~doc.exists THEN 404
    ELSE IF t.op = "updateReview"
         THEN IF NotOwner(doc, t.userId) THEN 403
              ELSE IF MissingInput(t.text, t.rating) THEN 400
              ELSE IF RatingOutOfRange(t.rating) THEN 400
              ELSE 0
    ELSE IF t.op = "deleteReview" /\ DeleteForbidden(t.isAdmin, doc, t.userId) THEN 403
    ELSE 0

\* firestore.collection('reviews').doc(reviewId).get() has returned.
ReviewRead(p) ==
    /\ tasks[p].pc = "reviewRead"
    /\ \E t \in {[tasks[p] EXCEPT !.reviewData = reviews[tasks[p].reviewId],
                                    !.gameId = reviews[tasks[p].reviewId].gameId]} :
        IF ReviewReadStatus(t, t.reviewData) # 0
        THEN /\ tasks' = Slot(p, IdleTask)
             /\ last' = Response(tasks[p], ReviewReadStatus(t, t.reviewData), "none")
        ELSE /\ tasks' = Slot(p, [t EXCEPT !.pc = CallAfterRead(t)])
             /\ last' = last
    /\ UNCHANGED <<games, reviews, nextId, hist>>

\* An update call that writes the fields whether or not the document exists.
UpdateRejected_Upsert(doc) == FALSE

\* DocumentReference.update() fails when there is no document to update.
UpdateRejected(doc) == ~doc.exists

\* firestore.collection('reviews').doc(reviewId).update(updateData) has
\* returned or thrown.
UpdateReviewWrite(p) ==
    /\ tasks[p].op = "updateReview"
    /\ tasks[p].pc = "reviewWrite"
    /\ IF UpdateRejected(reviews[tasks[p].reviewId])
       THEN /\ tasks' = Slot(p, IdleTask)
            /\ last' = Response(tasks[p], 500, "reviewWrite")
            /\ UNCHANGED <<reviews, hist>>
       ELSE \E t \in {AfterCommit(tasks[p], UpdateTriggersRecompute(tasks[p].rating,
                                                                     tasks[p].reviewData))} :
            /\ reviews' = [reviews EXCEPT ![tasks[p].reviewId] =
                              [@ EXCEPT !.exists = TRUE,
                                        !.text   = OrNull(tasks[p].text),
                                        !.rating = StoredRating(tasks[p].rating)]]
            /\ hist' = HistAfterReviewWrite(t.gameId)
            /\ IF t.pc = "idle"
               THEN /\ tasks' = SlotAfterWrite(p, IdleTask, t.gameId)
                    /\ last' = Response(t, 200, "none")
               ELSE /\ tasks' = SlotAfterWrite(p, t, t.gameId)
                    /\ last' = last
    /\ UNCHANGED <<games, nextId>>

\* firestore.collection('reviews').doc(reviewId).delete() is committed; deleting
\* a document that is gone already succeeds.
DeleteReviewWrite(p) ==
    /\ tasks[p].op \in {"deleteReview", "deleteReviewByAdmin"}
    /\ tasks[p].pc = "reviewWrite"
    /\ \E t \in {AfterCommit(tasks[p], HadRating(tasks[p].reviewData))} :
        /\ reviews' = [reviews EXCEPT ![tasks[p].reviewId] = NoReview]
        /\ hist' = HistAfterReviewWrite(t.gameId)
        /\ IF t.pc = "idle"
           THEN /\ tasks' = SlotAfterWrite(p, IdleTask, t.gameId)
                /\ last' = Response(t, 200, "none")
           ELSE /\ tasks' = SlotAfterWrite(p, t, t.gameId)
                /\ last' = last
    /\ UNCHANGED <<games, nextId>>

\* The query of updateGameRating has returned and the forEach has run.
RecomputeRead(p) ==
    /\ tasks[p].pc = "recomputeRead"
    /\ \E ids \in {ReviewsOfGame(reviews, tasks[p].gameId)} :
        tasks' = Slot(p, [tasks[p] EXCEPT !.pc = "recomputeWrite",
                                         !.totalRating = TotalRating(reviews, ids),
                                         !.count = CountRatings(reviews, ids),
                                         !.fresh = TRUE])
    /\ UNCHANGED <<games, reviews, nextId, last, hist>>

\* The update of updateGameRating is committed, and the handler responds.
RecomputeWrite(p) ==
    /\ tasks[p].pc = "recomputeWrite"
    /\ games' = UpdateRatingFields(games, tasks[p].gameId,
                                   Aggregate(tasks[p].totalRating, tasks[p].count))
    /\ hist' = HistAfterRecompute(tasks[p], tasks[p].gameId)
    /\ tasks' = Slot(p, IdleTask)
    /\ last' = Response(tasks[p], OkStatus(tasks[p].op), "none")
    /\ UNCHANGED <<reviews, nextId>>

\* The store call a handler awaits throws: the catch responds 500.
StoreFails(p) ==
    /\ tasks[p].pc # "idle"
    /\ tasks' = Slot(p, IdleTask)
    /\ last' = Response(tasks[p], 500, tasks[p].pc)
    /\ UNCHANGED <<games, reviews, nextId, hist>>

\* The server stops: no handler in flight goes on.
Crash ==
    /\ ~Quiet
    /\ tasks' = [p \in Procs |-> IdleTask]
    /\ last' = [NoRequest EXCEPT !.op = "crash"]
    /\ UNCHANGED <<games, reviews, nextId, hist>>

\* A call of updateGameRating(gameId) made and completed while nothing else runs.
QuietRecompute(gameId) ==
    /\ Quiet
    /\ \E u \in {updateGameRating(games, reviews, gameId, "none")} :
        /\ games' = u.games
        /\ hist' = [hist EXCEPT !.freshDone[gameId] = TRUE, !.lastFresh[gameId] = TRUE,
                                !.wasStale = (u.games # games)]
    /\ last' = [NoRequest EXCEPT !.op = "updateGameRating", !.gameId = gameId,
                                 !.status = 200, !.recomputes = 1]
    /\ UNCHANGED <<reviews, nextId, tasks>>

\* ------------------------------------------------------------------------
\* Review requests that overlap, on one game
\* ------------------------------------------------------------------------
RaceInit ==
    /\ games   = [g \in GameIds |-> NewGame("T1")]
    /\ reviews = [id \in 1..MaxRaceReviews |-> NoReview]
    /\ nextId  = 1
    /\ last    = NoRequest
    /\ tasks   = [p \in Procs |-> IdleTask]
    /\ hist    = NoHistory

RaceNext ==
    \/ \E p \in Procs, r \in RaceRatings :
          StartAddReview(p, "U1", "G1", Str(<<"o", "k">>), r)
    \/ \E p \in Procs : AddReviewGameRead(p)
    \/ \E p \in Procs : AddReviewWrite(p)
    \/ \E p \in Procs, id \in 1..MaxRaceReviews, r \in RaceUpdateRatings :
          StartReviewChange(p, "updateReview", id, "U1", FALSE, Str(<<"o", "k">>), r)
    \/ \E p \in Procs, id \in 1..MaxRaceReviews :
          StartReviewChange(p, "deleteReview", id, "U1", FALSE, Undefined, Undefined)
    \/ \E p \in Procs, id \in 1..MaxRaceReviews :
          StartReviewChange(p, "deleteReviewByAdmin", id, "", FALSE, Undefined, Undefined)
    \/ \E p \in Procs : ReviewRead(p)
    \/ \E p \in Procs : UpdateReviewWrite(p)
    \/ \E p \in Procs : DeleteReviewWrite(p)
    \/ \E p \in Procs : RecomputeRead(p)
    \/ \E p \in Procs : RecomputeWrite(p)
    \/ QuietRecompute("G1")

RaceSpec == RaceInit /\ [][RaceNext]_vars

\* ------------------------------------------------------------------------
\* The life of one review: overlapping requests, store calls that throw, and
\* a server that stops
\* ------------------------------------------------------------------------
\* Number of review documents ever created in one behaviour of LifeSpec.
MaxLifeReviews == 1

LifeRatings == {Undefined, Num(30), Num(50)}

LifeInit ==
    /\ games   = [g \in GameIds |-> NewGame("T1")]
    /\ reviews = [id \in 1..MaxLifeReviews |-> NoReview]
    /\ nextId  = 1
    /\ last    = NoRequest
    /\ tasks   = [p \in Procs |-> IdleTask]
    /\ hist    = NoHistory

LifeNext ==
    \/ \E p \in Procs, r \in LifeRatings :
          StartAddReview(p, "U1", "G1", Str(<<"o", "k">>), r)
    \/ \E p \in Procs : AddReviewGameRead(p)
    \/ \E p \in Procs : AddReviewWrite(p)
    \/ \E p \in Procs, id \in 1..MaxLifeReviews, r \in LifeRatings :
          StartReviewChange(p, "updateReview", id, "U1", FALSE, Str(<<"o", "k">>), r)
    \/ \E p \in Procs, id \in 1..MaxLifeReviews :
          StartReviewChange(p, "deleteReview", id, "U1", FALSE, Undefined, Undefined)
    \/ \E p \in Procs, id \in 1..MaxLifeReviews :
          StartReviewChange(p, "deleteReviewByAdmin", id, "", FALSE, Undefined, Undefined)
    \/ \E p \in Procs : ReviewRead(p)
    \/ \E p \in Procs : UpdateReviewWrite(p)
    \/ \E p \in Procs : DeleteReviewWrite(p)
    \/ \E p \in Procs : RecomputeRead(p)
    \/ \E p \in Procs : RecomputeWrite(p)
    \/ \E p \in Procs : StoreFails(p)
    \/ Crash

LifeSpec == LifeInit /\ [][LifeNext]_vars

\* ------------------------------------------------------------------------
\* Game requests in flight (requests without an image)
\* ------------------------------------------------------------------------
\* addGame, updateGame and deleteGame up to their first await: addGame validates
\* and issues its set, the other two issue the read of the game.
StartGameChange(p, op, gameId, title) ==
    /\ tasks[p].pc = "idle"
    /\ \E t \in {[IdleTask EXCEPT !.op = op, !.gameId = gameId, !.title = title]} :
        IF op = "addGame" /\ title = ""
        THEN tasks' = tasks /\ last' = Response(t, 400, "none")
        ELSE /\ tasks' = Slot(p, [t EXCEPT !.pc = IF op = "addGame" THEN "gameWrite"
                                                                   ELSE "gameRead"])
             /\ last' = last
    /\ UNCHANGED <<games, reviews, nextId, hist>>

\* gameSnapshot.exists() of updateGame and deleteGame; then updateGame issues
\* its update, deleteGame its query of the game's reviews.
GameRead(p) ==
    /\ tasks[p].op \in {"updateGame", "deleteGame"}
    /\ tasks[p].pc = "gameRead"
    /\ IF ~games[tasks[p].gameId].exists
       THEN tasks' = Slot(p, IdleTask) /\ last' = Response(tasks[p], 404, "none")
       ELSE /\ tasks' = Slot(p, [tasks[p] EXCEPT !.pc = IF tasks[p].op = "updateGame"
                                                        THEN "gameWrite"
                                                        ELSE "reviewsQuery"])
            /\ last' = last
    /\ UNCHANGED <<games, reviews, nextId, hist>>

\* A record under which update({title}) has set the title: the other children
\* stay, and a path with no value gets just the title.
WithTitle(game, title) == [game EXCEPT !.exists = TRUE, !.title = title]

\* db.ref(`games/${gameId}`).set(gameData) of addGame, or .update(updateData) of
\* updateGame, is committed, and the handler responds.
GameWrite(p) ==
    /\ tasks[p].op \in {"addGame", "updateGame"}
    /\ tasks[p].pc = "gameWrite"
    /\ games' = [games EXCEPT ![tasks[p].gameId] =
                    IF tasks[p].op = "addGame" THEN NewGame(tasks[p].title)
                    ELSE WithTitle(@, tasks[p].title)]
    /\ tasks' = Slot(p, IdleTask)
    /\ last' = Response(tasks[p], OkStatus(tasks[p].op), "none")
    /\ UNCHANGED <<reviews, nextId, hist>>

\* The query of deleteGame for the game's reviews has returned; the batch is
\* committed only when the snapshot is not empty.  The favorites deleteGame
\* goes through next are not part of the stores modelled here.
DeleteGameQuery(p) ==
    /\ tasks[p].op = "deleteGame"
    /\ tasks[p].pc = "reviewsQuery"
    /\ \E ids \in {ReviewsOfGame(reviews, tasks[p].gameId)} :
        tasks' = Slot(p, [tasks[p] EXCEPT !.docs = ids,
                                         !.pc = IF ids = {} THEN "gameRemove"
                                                ELSE "batchCommit"])
    /\ UNCHANGED <<games, reviews, nextId, last, hist>>

\* batch.commit() of deleteGame: the documents of the snapshot are deleted.
DeleteGameBatch(p) ==
    /\ tasks[p].op = "deleteGame"
    /\ tasks[p].pc = "batchCommit"
    /\ reviews' = [id \in DOMAIN reviews |->
                      IF id \in tasks[p].docs THEN NoReview ELSE reviews[id]]
    /\ hist' = HistAfterReviewWrite(tasks[p].gameId)
    /\ tasks' = SlotAfterWrite(p, [tasks[p] EXCEPT !.pc = "gameRemove", !.docs = {}],
                               tasks[p].gameId)
    /\ UNCHANGED <<games, nextId, last>>

\* db.ref(`games/${gameId}`).remove() of deleteGame, and the handler responds.
DeleteGameRemove(p) ==
    /\ tasks[p].op = "deleteGame"
    /\ tasks[p].pc = "gameRemove"
    /\ games' = [games EXCEPT ![tasks[p].gameId] = NoGame]
    /\ tasks' = Slot(p, IdleTask)
    /\ last' = Response(tasks[p], 200, "none")
    /\ UNCHANGED <<reviews, nextId, hist>>

\* ------------------------------------------------------------------------
\* Review and game requests that overlap, on one game
\* ------------------------------------------------------------------------
\* Number of review documents ever created in one behaviour of CascadeSpec.
MaxCascadeReviews == 2

CascadeRatings == {Undefined, Num(50)}

CascadeInit ==
    /\ games   = [g \in GameIds |-> IF g = "G1" THEN NewGame("T1") ELSE NoGame]
    /\ reviews = [id \in 1..MaxCascadeReviews |-> NoReview]
    /\ nextId  = 1
    /\ last    = NoRequest
    /\ tasks   = [p \in Procs |-> IdleTask]
    /\ hist    = NoHistory

CascadeNext ==
    \/ \E p \in Procs, r \in CascadeRatings :
          StartAddReview(p, "U1", "G1", Str(<<"o", "k">>), r)
    \/ \E p \in Procs : AddReviewGameRead(p)
    \/ \E p \in Procs : AddReviewWrite(p)
    \/ \E p \in Procs, id \in 1..MaxCascadeReviews :
          StartReviewChange(p, "deleteReview", id, "U1", FALSE, Undefined, Undefined)
    \/ \E p \in Procs : ReviewRead(p)
    \/ \E p \in Procs : DeleteReviewWrite(p)
    \/ \E p \in Procs : RecomputeRead(p)
    \/ \E p \in Procs : RecomputeWrite(p)
    \/ \E p \in Procs, t \in Titles : StartGameChange(p, "addGame", "G1", t)
    \/ \E p \in Procs : StartGameChange(p, "updateGame", "G1", "T2")
    \/ \E p \in Procs : StartGameChange(p, "deleteGame", "G1", "")
    \/ \E p \in Procs : GameRead(p)
    \/ \E p \in Procs : GameWrite(p)
    \/ \E p \in Procs : DeleteGameQuery(p)
    \/ \E p \in Procs : DeleteGameBatch(p)
    \/ \E p \in Procs : DeleteGameRemove(p)

CascadeSpec == CascadeInit /\ [][CascadeNext]_vars

\* ------------------------------------------------------------------------
\* What the claims speak of
\* ------------------------------------------------------------------------
ReviewOps == {"addReview", "updateReview", "deleteReview", "deleteReviewByAdmin"}

Succeeded == last.status \in {200, 201}

\* A rating that is an integer in [1,5].
IsRatingBearing(r) == r.t = "number" /\ r.n \in {10, 20, 30, 40, 50}

\* A rating that is present, numeric and in [1,5].
IsNumericInRange(r) == r.t = "number" /\ 10 <= r.n /\ r.n <= 50

\* A rating that is present and a number outside [1,5].
IsOutOfRange(r) == r.t = "number" /\ (r.n < 10 \/ r.n > 50)

RECURSIVE SumOfRatings(_)
SumOfRatings(ids) ==
    IF ids = {} THEN 0
    ELSE LET id == CHOOSE i \in ids : TRUE
         IN  reviews[id].rating.n + SumOfRatings(ids \ {id})

\* avg (in tenths) is sum/n rounded to one decimal place, whichever way a tie goes.
IsRound1(avg, sum, n) == 2 * Abs(n * avg - sum) <= n

\* The aggregate of game g is that of the stored reviews `ids` of g that count.
AggregateIs(g, ids) ==
    /\ games[g].totalRatings = Cardinality(ids)
    /\ IF ids = {}
       THEN games[g].averageRating = 0
       ELSE IsRound1(games[g].averageRating, SumOfRatings(ids), Cardinality(ids))

RatingBearingReviews(g) ==
    {id \in DOMAIN reviews :
        reviews[id].exists /\ reviews[id].gameId = g /\ IsRatingBearing(reviews[id].rating)}

NumericInRangeReviews(g) ==
    {id \in DOMAIN reviews :
        reviews[id].exists /\ reviews[id].gameId = g /\ IsNumericInRange(reviews[id].rating)}

\* ------------------------------------------------------------------------
\* C1 (ReviewSpec)
\* ------------------------------------------------------------------------
\* C1: when the four review operations run one at a time and no store call
\* fails, after each successful operation every game's totalRatings is the
\* number of its reviews whose rating is an integer in [1,5] and its
\* averageRating is their mean rounded to one decimal place, both 0 when there
\* are none.
C1_AggregateMatchesReviews ==
    (last.op \in ReviewOps /\ Succeeded) =>
        \A g \in GameIds : AggregateIs(g, RatingBearingReviews(g))

\* An update has just changed a rating and the game holds two rated reviews,
\* 3 and 5, with average 4.0.
C1_Witness ==
    /\ last.op = "updateReview"
    /\ Succeeded
    /\ last.recomputes = 1
    /\ \E g \in GameIds :
        /\ Cardinality(RatingBearingReviews(g)) = 2
        /\ SumOfRatings(RatingBearingReviews(g)) = 80
        /\ games[g].averageRating = 40

\* ------------------------------------------------------------------------
\* C2 (PureSpec)
\* ------------------------------------------------------------------------
\* C2: updateGameRating(gameId) writes totalRatings = N and averageRating =
\* round1(sum/N) over exactly the reviews of the game whose rating is present,
\* numeric and in [1,5], and 0 and 0 when N = 0.
C2_RecomputeCountsValidRatings ==
    (last.op = "updateGameRating" /\ last.status = 200) =>
        AggregateIs(last.gameId, NumericInRangeReviews(last.gameId))

\* Ratings 5, 3 and null of one game gave 4.0 and 2.
C2_Witness ==
    /\ last.op = "updateGameRating"
    /\ last.status = 200
    /\ \A id \in DOMAIN reviews : reviews[id].gameId = last.gameId
    /\ \E a, b, c \in DOMAIN reviews :
        /\ {a, b, c} = DOMAIN reviews
        /\ reviews[a].rating = Num(50)
        /\ reviews[b].rating = Num(30)
        /\ reviews[c].rating = Null
    /\ games[last.gameId].averageRating = 40
    /\ games[last.gameId].totalRatings = 2

\* ------------------------------------------------------------------------
\* C3 (Spec)
\* ------------------------------------------------------------------------
\* C3: a successful updateReview calls updateGameRating once if the rating it
\* persists differs from the rating stored before, and not at all if the rating
\* is unchanged.
C3_RecomputeIffRatingChanged ==
    [][(last'.op = "updateReview" /\ last'.status = 200) =>
          last'.recomputes =
              IF reviews'[last'.reviewId].rating # reviews[last'.reviewId].rating
              THEN 1 ELSE 0]_vars

\* ------------------------------------------------------------------------
\* C4, C5 (FailSpec)
\* ------------------------------------------------------------------------
RecomputeFailed == last.op \in ReviewOps /\ last.failed \in {"recomputeRead", "recomputeWrite"}

\* C4 as stated: when updateGameRating fails after the review mutation was
\* committed, the operation still reports success.
C4_RecomputeFailureReportsSuccess == RecomputeFailed => Succeeded

\* C4 as amended: when updateGameRating fails after the review mutation was
\* committed, the operation reports an error, status 500.
C4_RecomputeFailureReports500 == RecomputeFailed => last.status = 500

\* A delete removed the review, then updateGameRating failed at its write.
C4_Witness ==
    /\ last.op = "deleteReview"
    /\ last.failed = "recomputeWrite"
    /\ ~reviews[last.reviewId].exists

\* C5: when updateGameRating fails after the review mutation, the review store
\* keeps the created, updated or deleted state of the review (and nothing else
\* of it changes), and the game store is as it was before the operation.
C5_MutationKeptOnRecomputeFailure ==
    [][(last'.op \in ReviewOps /\ last'.failed \in {"recomputeRead", "recomputeWrite"}) =>
          LET id == last'.reviewId
          IN  /\ games' = games
              /\ \A other \in DOMAIN reviews \ {id} : reviews'[other] = reviews[other]
              /\ last'.op = "addReview" =>
                    /\ ~reviews[id].exists
                    /\ reviews'[id].exists
                    /\ reviews'[id].userId = last'.userId
                    /\ reviews'[id].gameId = last'.gameId
                    /\ reviews'[id].text = OrNull(last'.text)
                    /\ reviews'[id].rating = StoredRating(last'.rating)
              /\ last'.op = "updateReview" =>
                    /\ reviews'[id] = [reviews[id] EXCEPT
                                          !.text = OrNull(last'.text),
                                          !.rating = StoredRating(last'.rating)]
              /\ last'.op \in {"deleteReview", "deleteReviewByAdmin"} =>
                    /\ reviews[id].exists
                    /\ ~reviews'[id].exists]_vars

\* A rated review was created, updateGameRating failed at its read, and the game
\* still shows no rating.
C5_Witness ==
    /\ last.op = "addReview"
    /\ last.failed = "recomputeRead"
    /\ reviews[last.reviewId].exists
    /\ IsRatingBearing(reviews[last.reviewId].rating)
    /\ games[last.gameId].totalRatings = 0

\* ------------------------------------------------------------------------
\* C6, C7, C8 (Spec)
\* ------------------------------------------------------------------------
\* C6: a review operation that ends with 400, 403 or 404 leaves the review store
\* and the game store as they were and does not call updateGameRating.
C6_RejectedRequestHasNoEffect ==
    [][(last'.op \in ReviewOps /\ last'.status \in {400, 403, 404}) =>
          /\ reviews' = reviews
          /\ games' = games
          /\ nextId' = nextId
          /\ last'.recomputes = 0]_vars

\* The owner's update of a stored review was rejected with 400.
C6_Witness ==
    /\ last.op = "updateReview"
    /\ last.status = 400
    /\ reviews[last.reviewId].exists
    /\ reviews[last.reviewId].userId = last.userId

\* C7: addReview (for a stored game) and updateReview (of a stored review, by
\* its owner) answer a rating that is present and outside [1,5] with 400, with
\* or without text, change no review and do not call updateGameRating.
C7_OutOfRangeRatingRejected ==
    [][(/\ last'.op \in {"addReview", "updateReview"}
        /\ IsOutOfRange(last'.rating)
        /\ last'.op = "addReview" => games[last'.gameId].exists
        /\ last'.op = "updateReview" =>
              /\ reviews[last'.reviewId].exists
              /\ reviews[last'.reviewId].userId = last'.userId) =>
          /\ last'.status = 400
          /\ reviews' = reviews
          /\ last'.recomputes = 0]_vars

\* C8: every stored review has text or rating present, and its rating is null
\* or an integer in [1,5].
C8_StoredReviewsWellFormed ==
    \A id \in DOMAIN reviews :
        reviews[id].exists =>
            /\ reviews[id].text # Null \/ reviews[id].rating # Null
            /\ reviews[id].rating = Null \/ IsRatingBearing(reviews[id].rating)

\* ------------------------------------------------------------------------
\* C9, C10 (AuthSpec)
\* ------------------------------------------------------------------------
\* C9: updateReview changes a review only for the review's owner; any other
\* requester of a stored review, whatever its role, gets 403 and the review and
\* the game store are unchanged.
C9_OnlyOwnerUpdates ==
    [][last'.op = "updateReview" =>
          LET id == last'.reviewId
          IN  /\ (reviews[id].exists /\ last'.userId # reviews[id].userId) =>
                    /\ last'.status = 403
                    /\ reviews' = reviews
                    /\ games' = games
                    /\ last'.recomputes = 0
              /\ reviews' # reviews =>
                    /\ reviews[id].exists
                    /\ last'.userId = reviews[id].userId]_vars

\* A requester with isAdmin set asked to update another user's review: 403.
C9_Witness ==
    /\ last.op = "updateReview"
    /\ last.isAdmin
    /\ reviews[last.reviewId].exists
    /\ reviews[last.reviewId].userId # last.userId
    /\ last.status = 403

\* C10: deleteReview removes a stored review if and only if the requester owns
\* it or isAdmin is set, and otherwise answers 403 and the review stays;
\* deleteReviewByAdmin removes a stored review whoever owns it.
C10_DeleteByOwnerOrAdmin ==
    [][LET id == last'.reviewId
       IN  /\ (last'.op = "deleteReview" /\ reviews[id].exists) =>
                 IF last'.userId = reviews[id].userId \/ last'.isAdmin
                 THEN last'.status = 200 /\ ~reviews'[id].exists
                 ELSE last'.status = 403 /\ reviews' = reviews
           /\ (last'.op = "deleteReviewByAdmin" /\ reviews[id].exists) =>
                 last'.status = 200 /\ ~reviews'[id].exists]_vars

\* A requester who neither owns the review nor is an admin asked to delete it:
\* 403, and the review is still stored.
C10_Witness ==
    /\ last.op = "deleteReview"
    /\ ~last.isAdmin
    /\ last.status = 403
    /\ reviews[last.reviewId].exists
    /\ reviews[last.reviewId].userId # last.userId

\* ------------------------------------------------------------------------
\* C11 (ReviewSpec)
\* ------------------------------------------------------------------------
\* C11: a successful deleteReview or deleteReviewByAdmin calls updateGameRating
\* once if the deleted review's rating was not null and not at all otherwise,
\* the same for both; and when deleteReviewByAdmin removes a rated review of a
\* game that keeps other rated reviews, the game's aggregate afterwards is that
\* of the remaining reviews.
C11_DeleteRecomputesIffRated ==
    [][(last'.op \in {"deleteReview", "deleteReviewByAdmin"} /\ last'.status = 200) =>
          LET id == last'.reviewId
          IN  /\ reviews[id].exists
              /\ last'.recomputes = IF reviews[id].rating # Null THEN 1 ELSE 0
              /\ (last'.op = "deleteReviewByAdmin" /\ IsRatingBearing(reviews[id].rating)) =>
                    \A g \in GameIds :
                        g = reviews[id].gameId => AggregateIs(g, RatingBearingReviews(g))']_vars

\* A moderator deleted a rated review of a game that keeps one rated review,
\* and the game shows that one rating.
C11_Witness ==
    /\ last.op = "deleteReviewByAdmin"
    /\ last.status = 200
    /\ last.recomputes = 1
    /\ ~reviews[last.reviewId].exists
    /\ \E g \in GameIds :
        /\ Cardinality(RatingBearingReviews(g)) = 1
        /\ games[g].totalRatings = 1
        /\ games[g].averageRating = SumOfRatings(RatingBearingReviews(g))

\* ------------------------------------------------------------------------
\* C15, C18 (FrameSpec)
\* ------------------------------------------------------------------------
\* C15: a call of updateGameRating(gameId) that follows another one for the
\* same game, the reviews unchanged in between, computes the result the first
\* call computed and stored, and leaves the game store as the first call left
\* it.
C15_RecomputeIdempotent ==
    [][(last'.op = "updateGameRating" /\ last'.recomputes >= 2) =>
          \A g \in GameIds :
              g = last'.gameId =>
                  /\ RatingOf(reviews', g) =
                        [averageRating |-> games[g].averageRating,
                         totalRatings  |-> games[g].totalRatings]
                  /\ games' = games]_vars

\* updateGameRating was called twice in a row for a game with two rated reviews.
C15_Witness ==
    /\ last.op = "updateGameRating"
    /\ last.recomputes = 2
    /\ games[last.gameId].totalRatings = 2
    /\ games[last.gameId].averageRating = 40

\* C18: a call of updateGameRating(gameId) sets averageRating and totalRatings
\* of that game to what it computed, whatever they were, and changes nothing
\* else: not the game's other field, not another game, not a review.
C18_RecomputeWritesTwoFields ==
    [][last'.op = "updateGameRating" =>
          \A g \in GameIds :
              g = last'.gameId =>
                  /\ games'[g].averageRating = RatingOf(reviews, g).averageRating
                  /\ games'[g].totalRatings = RatingOf(reviews, g).totalRatings
                  /\ games'[g].title = games[g].title
                  /\ \A o \in GameIds \ {g} : games'[o] = games[o]
                  /\ reviews' = reviews
                  /\ nextId' = nextId]_vars

\* updateGameRating has overwritten the aggregate of a titled game with that of
\* its one rated review, next to a game whose stale aggregate it left alone.
C18_Witness ==
    /\ last.op = "updateGameRating"
    /\ games[last.gameId].title = "T1"
    /\ games[last.gameId].totalRatings = 1
    /\ \E o \in GameIds \ {last.gameId} : games[o] = StaleGame

\* ------------------------------------------------------------------------
\* C19 (FailSpec)
\* ------------------------------------------------------------------------
\* C19: when the store call that adds, updates or deletes the review throws, the
\* handler answers 500, the review store is as it was (nothing created, updated
\* or deleted), updateGameRating is not called and the game store is unchanged.
C19_FailedMutationAborts ==
    [][(last'.op \in ReviewOps /\ last'.failed = "reviewWrite") =>
          /\ last'.status = 500
          /\ reviews' = reviews
          /\ nextId' = nextId
          /\ games' = games
          /\ last'.recomputes = 0]_vars

\* The update call of an updateReview that gave an unrated review a rating
\* threw: the review is still unrated.
C19_Witness ==
    /\ last.op = "updateReview"
    /\ last.failed = "reviewWrite"
    /\ Truthy(last.rating)
    /\ reviews[last.reviewId].exists
    /\ reviews[last.reviewId].rating = Null

\* ------------------------------------------------------------------------
\* C12, C13 (LifeSpec)
\* ------------------------------------------------------------------------
\* The review write of the handler in slot p is in the review store after the
\* step.
MutationCommitted(p) ==
    CASE tasks[p].op = "addReview" ->
            /\ ~reviews[nextId].exists
            /\ reviews'[nextId].exists
            /\ reviews'[nextId].rating = StoredRating(tasks[p].rating)
      [] tasks[p].op = "updateReview" ->
            /\ reviews'[tasks[p].reviewId].exists
            /\ reviews'[tasks[p].reviewId].rating = StoredRating(tasks[p].rating)
      [] OTHER -> ~reviews'[tasks[p].reviewId].exists

\* C12: with requests that overlap, store calls that throw and a server that
\* stops anywhere, a handler starts the read of updateGameRating only in the
\* step that commits its review write or later, the aggregate it then writes
\* is that of the reviews stored when it read, and the game store changes in no
\* other step: no aggregate reflects a review write that is not committed.
C12_RecomputeAfterCommit ==
    [][/\ \A p \in Procs :
            /\ (tasks'[p].pc = "recomputeRead" /\ tasks[p].pc # "recomputeRead") =>
                  /\ tasks[p].pc = "reviewWrite"
                  /\ MutationCommitted(p)
            /\ (tasks'[p].pc = "recomputeWrite" /\ tasks[p].pc # "recomputeWrite") =>
                  /\ tasks[p].pc = "recomputeRead"
                  /\ reviews' = reviews
                  /\ Aggregate(tasks'[p].totalRating, tasks'[p].count)
                        = RatingOf(reviews, tasks[p].gameId)
       /\ games' # games =>
            \E p \in Procs :
                /\ tasks[p].pc = "recomputeWrite"
                /\ tasks[p].committed
                /\ games' = UpdateRatingFields(games, tasks[p].gameId,
                                Aggregate(tasks[p].totalRating, tasks[p].count))]_vars

\* The server stopped between the add of a rated review and the write of
\* updateGameRating: the review is stored and the game shows no rating.
C12_Witness ==
    /\ last.op = "crash"
    /\ \E id \in DOMAIN reviews :
        /\ reviews[id].exists
        /\ IsRatingBearing(reviews[id].rating)
        /\ games[reviews[id].gameId].totalRatings = 0

\* C13: a review document comes to exist only as the next new document of an
\* addReview, and once deleted it never exists again, whatever handlers overlap
\* (an updateReview that read it before the delete included); an updateReview,
\* deleteReview or deleteReviewByAdmin whose read finds no review answers 404.
C13_NoUndelete ==
    [][/\ \A id \in DOMAIN reviews :
            /\ (id < nextId /\ ~reviews[id].exists) => ~reviews'[id].exists
            /\ (~reviews[id].exists /\ reviews'[id].exists) =>
                  /\ id = nextId
                  /\ nextId' = nextId + 1
                  /\ \E p \in Procs : tasks[p].op = "addReview" /\ tasks[p].pc = "reviewWrite"
       /\ \A p \in Procs :
            (/\ tasks[p].pc = "reviewRead"
             /\ tasks'[p] # tasks[p]
             /\ ~reviews[tasks[p].reviewId].exists) =>
                /\ tasks'[p].pc = "idle"
                /\ \/ last' = Response(tasks[p], 404, "none")
                   \/ last'.failed = "reviewRead"
                   \/ last'.op = "crash"]_vars

\* An updateReview has read a review that was deleted before its update call
\* is applied.
C13_Witness ==
    \E p \in Procs :
        /\ tasks[p].op = "updateReview"
        /\ tasks[p].pc = "reviewWrite"
        /\ tasks[p].reviewData.exists
        /\ tasks[p].reviewId < nextId
        /\ ~reviews[tasks[p].reviewId].exists

\* ------------------------------------------------------------------------
\* C16, C17 (RaceSpec)
\* ------------------------------------------------------------------------
\* C16 as stated: once the overlapping review operations on a game are over,
\* the game's aggregate is that of its stored reviews whenever some call of
\* updateGameRating that read the reviews after the last review write has
\* written the game.
C16_ConvergesAfterLateRecompute ==
    \A g \in GameIds :
        (Quiet /\ hist.freshDone[g]) => AggregateIs(g, NumericInRangeReviews(g))

\* C16 as amended: once the overlapping review operations on a game are over,
\* the game's aggregate is that of its stored reviews whenever the call of
\* updateGameRating whose write the game holds read the reviews after the last
\* review write.
C16_ConvergesWhenLastWriterReadLate ==
    \A g \in GameIds :
        (Quiet /\ hist.lastFresh[g]) => AggregateIs(g, NumericInRangeReviews(g))

\* Two rated reviews were added by overlapping requests and the game shows
\* both, the last write being that of a call that read them both.
C16_Witness ==
    /\ Quiet
    /\ hist.lastFresh["G1"]
    /\ last.op = "addReview"
    /\ Cardinality(RatingBearingReviews("G1")) = 2
    /\ games["G1"].totalRatings = 2

\* C17: when no request is in flight, a call of updateGameRating that runs
\* alone to its end leaves the game's averageRating and totalRatings equal to
\* the aggregate of the reviews stored for it, whatever races left there.
C17_QuietRecomputeHeals ==
    [][(Quiet /\ tasks' = tasks /\ last'.op = "updateGameRating") =>
          \A g \in GameIds :
              g = last'.gameId => AggregateIs(g, NumericInRangeReviews(g))']_vars

\* A call of updateGameRating made while nothing else ran found the aggregate
\* that overlapping requests had left wrong, and the game now shows its review.
C17_Witness ==
    /\ Quiet
    /\ last.op = "updateGameRating"
    /\ hist.wasStale
    /\ RatingBearingReviews(last.gameId) # {}
    /\ games[last.gameId].totalRatings = Cardinality(RatingBearingReviews(last.gameId))

\* ------------------------------------------------------------------------
\* C14, C20 (CascadeSpec)
\* ------------------------------------------------------------------------
\* C14: whatever way addReview, deleteReview and the game requests overlap,
\* every stored review is of a game that has a record, and every game record
\* is one that addGame wrote or updateGame retitled, none that
\* updateGameRating made out of nothing.
C14_ReviewsReferenceGames ==
    /\ \A id \in DOMAIN reviews :
          reviews[id].exists => games[reviews[id].gameId].exists
    /\ \A g \in GameIds : games[g].exists => games[g].title # ""

\* C20: whatever way review requests, calls of updateGameRating and game
\* requests overlap, every game record has totalRatings >= 0, averageRating 0
\* exactly when totalRatings is 0, and otherwise averageRating in [1,5].
C20_AggregatePairConsistent ==
    \A g \in GameIds :
        games[g].exists =>
            /\ games[g].totalRatings >= 0
            /\ (games[g].averageRating = 0) <=> (games[g].totalRatings = 0)
            /\ games[g].totalRatings > 0 =>
                  (10 <= games[g].averageRating /\ games[g].averageRating <= 50)

\* A call of updateGameRating that overlapped a deleteGame has written the
\* rating of a review into a game record that holds nothing else.
C20_Witness ==
    /\ games["G1"].exists
    /\ games["G1"].title = ""
    /\ games["G1"].totalRatings = 1
    /\ games["G1"].averageRating = 50

\* ------------------------------------------------------------------------
\* C21 (AdminSpec)
\* ------------------------------------------------------------------------
GameOps == {"addGame", "updateGame", "deleteGame"}

\* Every game that has a record shows the aggregate of the reviews stored for it.
AllAggregatesMatch ==
    \A g \in GameIds : games[g].exists => AggregateIs(g, NumericInRangeReviews(g))

\* C21: when requests run one at a time and no store call fails, a successful
\* addGame, updateGame or deleteGame that starts with every game showing the
\* aggregate of its stored reviews ends with every game showing it.
C21_GameOpsPreserveAggregate ==
    [][(AllAggregatesMatch /\ last'.op \in GameOps /\ last'.status \in {200, 201}) =>
          AllAggregatesMatch']_vars

\* ------------------------------------------------------------------------
\* C22 (Spec)
\* ------------------------------------------------------------------------
\* What a request means to have stored for a field it carries as v: nothing
\* (null) when the field is omitted or null, the value otherwise, a rating
\* given as a string being its number.
RequestedText(v) == IF v \in {Undefined, Null} THEN Null ELSE v

RequestedRating(v) == IF v \in {Undefined, Null} THEN Null ELSE ToNumber(v)

\* C22: after a successful updateReview the review's text and rating are those
\* of the request, a field the request omits being stored as null, and its
\* userId, gameId and dateTimePosted are as before; when the request omits the
\* rating of a rated review, updateGameRating is called once and the game's
\* aggregate no longer counts the review.
C22_UpdateReplacesBothFields ==
    [][(last'.op = "updateReview" /\ last'.status = 200) =>
          LET id == last'.reviewId
          IN  /\ reviews'[id].exists
              /\ reviews'[id].text = RequestedText(last'.text)
              /\ reviews'[id].rating = RequestedRating(last'.rating)
              /\ reviews'[id].userId = reviews[id].userId
              /\ reviews'[id].gameId = reviews[id].gameId
              /\ reviews'[id].dateTimePosted = reviews[id].dateTimePosted
              /\ (last'.rating = Undefined /\ IsRatingBearing(reviews[id].rating)) =>
                    /\ last'.recomputes = 1
                    /\ \A g \in GameIds :
                          g = reviews[id].gameId =>
                              AggregateIs(g, NumericInRangeReviews(g))']_vars

=============================================================================
